---- MODULE Spec2Model ----
(***************************************************************************)
(* Model of src/simulator.py: one replication of the supermarket           *)
(* simulation (class Supermarket driven by a simpy Environment).           *)
(*                                                                         *)
(* One step of the model is one step of the simpy event loop: the event    *)
(* at the head of the event queue is popped, the clock moves to its time   *)
(* and its callbacks run (a process resumed by the event runs up to its    *)
(* next yield).  The event queue is kept in dispatch order: simpy orders   *)
(* events by (time, priority, insertion number), so a new event goes       *)
(* behind every event of the same time and priority.  Events without       *)
(* callbacks (the termination event of a finished process, a Release       *)
(* nobody waits on after its _trigger_put ran) change nothing and only     *)
(* the ones with a callback are kept.                                      *)
(*                                                                         *)
(* Time is counted in ticks, TicksPerUnit ticks for one simulated time     *)
(* unit.  The exponential draws of numpy are choices from small sets.      *)
(*                                                                         *)
(* simulate() is modelled around it: the per-replication lists it fills    *)
(* and the statistics it returns.  Fractions are exact, a pair of a        *)
(* numerator and a positive denominator in lowest terms; nan is the pair   *)
(* with denominator 0.  A half-width c * std / sqrt(n) is carried as its   *)
(* square c^2 * var / n, the half-width being its non-negative root.       *)
(***************************************************************************)
EXTENDS Integers, Sequences, FiniteSets, TLC

\* ---------------------------------------------------------------- bounds
TicksPerUnit == 2
\* env.run(until=200): the model runs to a shorter horizon, in ticks.
Horizon == 10
\* Number of customers after which the next interarrival gap is drawn
\* beyond the horizon.
MaxCustomers == 8
\* The same number for each replication of a call with several of them.
MaxRunCustomers == 3

\* Longest interarrival gap drawn short of the horizon, in time units.
MaxGap == 1

\* np.random.exponential(1.0 / lambda_rate), in ticks: any gap can be drawn
\* at any rate, the rate being only the scale of the distribution.  The
\* gaps explored are the whole numbers of time units up to MaxGap (0 is a
\* customer on the heels of the last one) and a gap that reaches past the
\* horizon.
ArrivalIntervals(rate) == { k * TicksPerUnit : k \in 0..MaxGap } \cup {Horizon}
\* np.random.exponential(1.0), in ticks
ServiceTimes == {1, 3}

\* Supermarket(env, **supermarket_params)
Configs ==
    { [num_cashiers |-> 1, extra_cashier_policy |-> 0, lambda_rate |-> 2, C |-> 3],
      [num_cashiers |-> 1, extra_cashier_policy |-> 5, lambda_rate |-> 9, C |-> 3],
      [num_cashiers |-> 1, extra_cashier_policy |-> 6, lambda_rate |-> 9, C |-> 1],
      [num_cashiers |-> 2, extra_cashier_policy |-> 1, lambda_rate |-> 4, C |-> 1] }

\* ------------------------------------------------------ program constants
\* mutant: customers wait twice as long
LongPatience == 2 * TicksPerUnit

\* self.env.timeout(1): the patience of a queued customer
Patience == 1 * TicksPerUnit
\* mutant: the window lasts as long as a customer's patience
ShortOverflow == 1 * TicksPerUnit

\* self.env.timeout(2): the length of an overflow window
OverflowDuration == 2 * TicksPerUnit
\* min_queue < 5
SaturationThreshold == 5
\* self.profit += 10
Gain == 10
\* simpy.Resource(env): capacity 1
Capacity == 1
\* simpy event priorities
URGENT == 0
NORMAL == 1

\* the overflow resource self.extra_cashier; the regular ones are 1..num_cashiers
ExtraCashier == 0
None == -1

VARIABLES
    now,                 \* env.now, in ticks
    evq,                 \* the environment's event queue, in dispatch order
    num_cashiers, extra_cashier_policy, lambda_rate, C,
    users,               \* resource -> sequence of customers holding it
    queue,               \* resource -> sequence of customers with a pending request
    customers,           \* customer -> state of its customer_process
    ncustomers,          \* customers created so far
    lost_customers, profit, waiting_times, open_extra_cashier,
    activation_count,    \* overflow windows opened so far
    opened_at,           \* time the current (or last) window was opened
    routed_since_close,  \* routing decisions since the window last closed
    last,                \* what the last step did
    done,                \* env.run(until=...) has returned
    num_runs,            \* simulate's num_runs
    profits, lost_customers_runs, avg_waiting_times,  \* simulate's lists
    result               \* what simulate has returned

\* the parameters of the run, fixed by Supermarket.__init__
params == << num_cashiers, extra_cashier_policy, lambda_rate, C >>

\* the locals of simulate
agg == << num_runs, profits, lost_customers_runs, avg_waiting_times, result >>

vars == << now, evq, num_cashiers, extra_cashier_policy, lambda_rate, C,
           users, queue,
           customers, ncustomers, lost_customers, profit, waiting_times,
           open_extra_cashier, activation_count, opened_at, routed_since_close,
           last, done,
           num_runs, profits, lost_customers_runs, avg_waiting_times, result >>

\* ------------------------------------------------------------ arithmetic
Abs(x) == IF x < 0 THEN -x ELSE x

RECURSIVE GCD(_, _)
GCD(a, b) == IF b = 0 THEN a ELSE GCD(b, a % b)

\* float nan
NaN == [n |-> 0, d |-> 0]
IsNaN(x) == x.d = 0

\* the fraction n / d in lowest terms; 0.0 / 0 is nan
Frac(n, d) ==
    IF d = 0 THEN NaN
    ELSE LET g == GCD(Abs(n), Abs(d))
             sgn == IF d < 0 THEN -1 ELSE 1
         IN  [n |-> sgn * (n \div g), d |-> sgn * (d \div g)]

\* float arithmetic: nan in, nan out
FAdd(x, y) == IF IsNaN(x) \/ IsNaN(y) THEN NaN ELSE Frac(x.n * y.d + y.n * x.d, x.d * y.d)
FSub(x, y) == IF IsNaN(x) \/ IsNaN(y) THEN NaN ELSE Frac(x.n * y.d - y.n * x.d, x.d * y.d)
FMul(x, y) == IF IsNaN(x) \/ IsNaN(y) THEN NaN ELSE Frac(x.n * y.n, x.d * y.d)
FDiv(x, k) == IF IsNaN(x) THEN NaN ELSE Frac(x.n, x.d * k)

\* a list of numbers as an array of floats
Floats(xs) == [i \in 1..Len(xs) |-> Frac(xs[i], 1)]

RECURSIVE FSum(_)
FSum(xs) == IF xs = << >> THEN Frac(0, 1) ELSE FAdd(Head(xs), FSum(Tail(xs)))

\* np.mean: the sum over the length; nan for an empty list
mean(xs) == FDiv(FSum(xs), Len(xs))

\* the square of np.std (ddof = 0): the mean of the squared deviations
\* from the mean
var(xs) ==
    LET m == mean(xs)
    IN  mean([i \in 1..Len(xs) |-> FMul(FSub(xs[i], m), FSub(xs[i], m))])

\* the square of 1.96 * np.std(xs) / np.sqrt(n)
ci_sq(xs, n) == FDiv(FMul(Frac(196 * 196, 100 * 100), var(xs)), n)

\* simulate has not returned
NoResult == [returned |-> FALSE]

Customers == 1..MaxCustomers
Cashiers == 1..num_cashiers
Resources == {ExtraCashier} \cup Cashiers

Event(t, pri, kind, id) == [t |-> t, pri |-> pri, kind |-> kind, id |-> id]

\* Environment.schedule: heappush of (now + delay, priority, eid, event)
Schedule(q, e) ==
    LET k == Cardinality({ i \in 1..Len(q) :
                 q[i].t < e.t \/ (q[i].t = e.t /\ q[i].pri <= e.pri) })
    IN  SubSeq(q, 1, k) \o << e >> \o SubSeq(q, k + 1, Len(q))

RECURSIVE ScheduleAll(_, _)
ScheduleAll(q, es) ==
    IF es = << >> THEN q ELSE ScheduleAll(Schedule(q, Head(es)), Tail(es))

Remove(s, c) == SelectSeq(s, LAMBDA x : x # c)

NoCustomer ==
    [st |-> "none", arrival |-> 0, cashier |-> None,
     triggered |-> FALSE, processed |-> {}, cond |-> FALSE, timedout |-> FALSE]

\* ------------------------------------------------------------ simpy core
\* mutant: the head of the queue is granted whether or not a slot is free
TriggerPutAlways(u, q) ==
    IF q # << >>
        THEN [users |-> Append(u, Head(q)), queue |-> Tail(q), granted |-> << Head(q) >>]
        ELSE [users |-> u, queue |-> q, granted |-> << >>]

\* BaseResource._trigger_put with Resource._do_put: the request at the head
\* of the put queue is granted when a slot is free; _do_put returns None, so
\* the scan stops after the first request.
TriggerPut(u, q) ==
    IF q # << >> /\ Len(u) < Capacity
        THEN [users |-> Append(u, Head(q)), queue |-> Tail(q), granted |-> << Head(q) >>]
        ELSE [users |-> u, queue |-> q, granted |-> << >>]

\* Event.succeed of a granted request: scheduled at the current time
RequestEvents(t, granted) ==
    IF granted = << >> THEN << >> ELSE << Event(t, NORMAL, "req", Head(granted)) >>

MarkTriggered(cs, granted) ==
    IF granted = << >> THEN cs
    ELSE [cs EXCEPT ![Head(granted)].triggered = TRUE]

\* Environment.step: pop the next event; run(until) stops before the horizon
Dispatch(kind) ==
    /\ ~done
    /\ evq # << >>
    /\ Head(evq).t < Horizon
    /\ Head(evq).kind = kind
    /\ now' = Head(evq).t

Step(kind, id, cashier, trig) ==
    [kind |-> kind, id |-> id, cashier |-> cashier, trig |-> trig,
     open |-> open_extra_cashier]

\* -------------------------------------------------------- choose_cashier
QueueLen(r) == Len(queue[r])

\* mutant: among equal lengths the cashier last in self.cashiers
min_cashier_last ==
    CHOOSE i \in Cashiers :
        \A j \in Cashiers :
            \/ QueueLen(i) < QueueLen(j)
            \/ QueueLen(i) = QueueLen(j) /\ i >= j

\* queues.sort(key=lambda x: x[0]); queues[0]: the sort is stable, so among
\* equal lengths the cashier first in self.cashiers comes first
min_cashier ==
    CHOOSE i \in Cashiers :
        \A j \in Cashiers :
            \/ QueueLen(i) < QueueLen(j)
            \/ QueueLen(i) = QueueLen(j) /\ i <= j

min_queue == QueueLen(min_cashier)

\* mutant: the activation threshold compared strictly
TriggersOpenStrict ==
    /\ ~open_extra_cashier
    /\ min_queue > extra_cashier_policy

\* mutant: the activation is triggered without looking at the flag
TriggersOpenAlways == min_queue >= extra_cashier_policy

\* if not self.open_extra_cashier and min_queue >= self.extra_cashier_policy
TriggersOpen ==
    /\ ~open_extra_cashier
    /\ min_queue >= extra_cashier_policy

\* mutant: the saturation test made before the overflow override
choose_cashier_balk_first ==
    IF min_queue >= SaturationThreshold THEN None
    ELSE IF open_extra_cashier THEN ExtraCashier
    ELSE min_cashier

\* mutant: the saturation test off by one
choose_cashier_late_balk ==
    IF open_extra_cashier THEN ExtraCashier
    ELSE IF min_queue <= SaturationThreshold THEN min_cashier
    ELSE None

\* mutant: the customer that triggers the activation is sent to the
\* overflow resource
choose_cashier_activated ==
    IF open_extra_cashier \/ TriggersOpen THEN ExtraCashier
    ELSE IF min_queue < SaturationThreshold THEN min_cashier
    ELSE None

\* mutant: a customer joins the shortest regular queue whatever its length
choose_cashier_no_balk ==
    IF open_extra_cashier THEN ExtraCashier ELSE min_cashier

\* the value choose_cashier returns
choose_cashier ==
    IF open_extra_cashier THEN ExtraCashier
    ELSE IF min_queue < SaturationThreshold THEN min_cashier
    ELSE None

\* ------------------------------------------------------------------ Init
\* simpy.Environment(), Supermarket(env, **supermarket_params) and
\* env.process(supermarket.customer_arrival())
Construct(cfg) ==
    /\ now = 0
    /\ num_cashiers = cfg.num_cashiers
    /\ extra_cashier_policy = cfg.extra_cashier_policy
    /\ lambda_rate = cfg.lambda_rate
    /\ C = cfg.C
    /\ users = [r \in {ExtraCashier} \cup (1..cfg.num_cashiers) |-> << >>]
    /\ queue = [r \in {ExtraCashier} \cup (1..cfg.num_cashiers) |-> << >>]
    /\ customers = [c \in Customers |-> NoCustomer]
    /\ ncustomers = 0
    /\ lost_customers = 0
    /\ profit = 0
    /\ waiting_times = << >>
    /\ open_extra_cashier = FALSE
    /\ activation_count = 0
    /\ opened_at = 0
    /\ routed_since_close = 0
    \* env.process(supermarket.customer_arrival())
    /\ evq = << Event(0, URGENT, "init_arrival", 0) >>
    /\ last = [kind |-> "init", id |-> 0, cashier |-> None, trig |-> FALSE, open |-> FALSE]
    /\ done = FALSE

\* simulate(supermarket_params, num_runs) entered
Enter(n) ==
    /\ num_runs = n
    /\ profits = << >>
    /\ lost_customers_runs = << >>
    /\ avg_waiting_times = << >>
    /\ result = NoResult

\* one replication of a valid configuration
Init ==
    /\ \E cfg \in Configs : Construct(cfg)
    /\ Enter(1)

\* --------------------------------------------------------------- actions
\* the next interarrival gap; past MaxCustomers it falls beyond the horizon
CustomerBound == IF num_runs = 1 THEN MaxCustomers ELSE MaxRunCustomers

NextGaps(n) ==
    IF n < CustomerBound THEN ArrivalIntervals(lambda_rate) ELSE {Horizon}

\* customer_arrival up to its first yield
InitArrival ==
    /\ Dispatch("init_arrival")
    /\ \E gap \in NextGaps(ncustomers) :
          evq' = Schedule(Tail(evq), Event(now' + gap, NORMAL, "arrive", 0))
    /\ last' = Step("init_arrival", 0, None, FALSE)
    /\ UNCHANGED << agg, params, users, queue,
                    customers, ncustomers, lost_customers, profit,
                    waiting_times, open_extra_cashier, activation_count,
                    opened_at,
                    routed_since_close, done >>

\* customer_arrival resumed by its timeout: spawn the customer, draw the
\* next gap, wait again
Arrive ==
    /\ Dispatch("arrive")
    /\ ncustomers < MaxCustomers
    /\ LET c == ncustomers + 1 IN
          /\ ncustomers' = c
          /\ customers' = [customers EXCEPT ![c].st = "created", ![c].arrival = now']
          /\ \E gap \in NextGaps(c) :
                evq' = ScheduleAll(Tail(evq),
                          << Event(now', URGENT, "init_cust", c),
                             Event(now' + gap, NORMAL, "arrive", 0) >>)
          /\ last' = Step("arrive", c, None, FALSE)
    /\ UNCHANGED << agg, params, users, queue,
                    lost_customers, profit, waiting_times, open_extra_cashier,
                    activation_count, opened_at,
                    routed_since_close, done >>

\* mutant: a lost customer counted twice
LoseTwice(n) == n + 2

\* self.lost_customers += 1
Lose(n) == n + 1

\* customer_process up to its first yield: choose_cashier, then either the
\* request and the patience timeout, or the balk
InitCust ==
    /\ Dispatch("init_cust")
    /\ routed_since_close' = routed_since_close + 1
    /\ LET c == Head(evq).id
           cashier == choose_cashier
           opens == IF TriggersOpen
                       THEN << Event(now', URGENT, "init_open", 0) >>
                       ELSE << >>
       IN  IF cashier # None
           THEN LET tp == TriggerPut(users[cashier], Append(queue[cashier], c)) IN
                /\ users' = [users EXCEPT ![cashier] = tp.users]
                /\ queue' = [queue EXCEPT ![cashier] = tp.queue]
                /\ customers' = MarkTriggered(
                       [customers EXCEPT ![c].st = "waiting", ![c].cashier = cashier],
                       tp.granted)
                /\ evq' = ScheduleAll(Tail(evq),
                             opens \o RequestEvents(now', tp.granted)
                                   \o << Event(now' + Patience, NORMAL, "pat", c) >>)
                /\ last' = Step("init_cust", c, cashier, TriggersOpen)
                /\ UNCHANGED lost_customers
           ELSE /\ lost_customers' = Lose(lost_customers)
                /\ customers' = [customers EXCEPT ![c].st = "balked"]
                /\ evq' = ScheduleAll(Tail(evq), opens)
                /\ last' = Step("init_cust", c, None, TriggersOpen)
                /\ UNCHANGED << users, queue >>
    /\ UNCHANGED << agg, params, ncustomers, profit,
                    waiting_times, open_extra_cashier, activation_count,
                    opened_at, done >>

\* Condition._check, called when the request or the patience timeout of
\* customer c is processed: the first of the two triggers the condition
Check(c, which, late) ==
    /\ customers' = [customers EXCEPT ![c].processed = @ \cup {which},
                                      ![c].cond = TRUE,
                                      ![c].timedout = @ \/ late]
    /\ evq' = IF customers[c].cond
                 THEN Tail(evq)
                 ELSE Schedule(Tail(evq), Event(now', NORMAL, "cond", c))

\* the granted request of a customer is processed
ReqEvent ==
    /\ Dispatch("req")
    /\ Check(Head(evq).id, "req", FALSE)
    /\ last' = Step("req", Head(evq).id, customers[Head(evq).id].cashier, FALSE)
    /\ UNCHANGED << agg, params, users, queue,
                    ncustomers, lost_customers, profit, waiting_times,
                    open_extra_cashier, activation_count, opened_at,
                    routed_since_close, done >>

\* the patience timeout of a customer is processed; timedout records that
\* the request had not been granted by then
PatEvent ==
    /\ Dispatch("pat")
    /\ Check(Head(evq).id, "pat", ~customers[Head(evq).id].triggered)
    /\ last' = Step("pat", Head(evq).id, customers[Head(evq).id].cashier, FALSE)
    /\ UNCHANGED << agg, params, users, queue,
                    ncustomers, lost_customers, profit, waiting_times,
                    open_extra_cashier, activation_count, opened_at,
                    routed_since_close, done >>

\* mutant: the customer is served whichever event resumed it
RequestInResultAlways(c) == TRUE

\* if request in result: the request is in the condition's value when it
\* has been processed by the time the condition is
RequestInResult(c) == "req" \in customers[c].processed

\* mutant: the request is released but not cancelled
ExitNoCancel(c, r, cs) ==
    /\ queue' = queue
    /\ users' = [users EXCEPT ![r] = Remove(@, c)]
    /\ customers' = cs
    /\ evq' = Schedule(Tail(evq), Event(now', NORMAL, "rel", r))

\* Request.__exit__: cancel() withdraws a request that was not triggered,
\* release() drops the customer from the users and schedules the Release
Exit(c, r, cs) ==
    /\ queue' = [queue EXCEPT ![r] =
                    IF customers[c].triggered THEN @ ELSE Remove(@, c)]
    /\ users' = [users EXCEPT ![r] = Remove(@, c)]
    /\ customers' = cs
    /\ evq' = Schedule(Tail(evq), Event(now', NORMAL, "rel", r))

\* customer_process resumed by its condition: service starts, or it reneges
CondEvent ==
    /\ Dispatch("cond")
    /\ LET c == Head(evq).id
           r == customers[c].cashier
       IN  IF RequestInResult(c)
           THEN /\ waiting_times' = Append(waiting_times, now' - customers[c].arrival)
                /\ \E service_time \in ServiceTimes :
                      evq' = Schedule(Tail(evq),
                                Event(now' + service_time, NORMAL, "svc", c))
                /\ customers' = [customers EXCEPT ![c].st = "service"]
                /\ last' = Step("served", c, r, FALSE)
                /\ UNCHANGED << users, queue, lost_customers >>
           ELSE /\ lost_customers' = Lose(lost_customers)
                /\ Exit(c, r, [customers EXCEPT ![c].st = "reneged"])
                /\ last' = Step("reneged", c, r, FALSE)
                /\ UNCHANGED waiting_times
    /\ UNCHANGED << agg, params, ncustomers, profit,
                    open_extra_cashier, activation_count, opened_at,
                    routed_since_close, done >>

\* self.profit += 10
Serve(p) == p + Gain

\* customer_process resumed by its service timeout: revenue, then release
SvcEvent ==
    /\ Dispatch("svc")
    /\ LET c == Head(evq).id
           r == customers[c].cashier
       IN  /\ profit' = Serve(profit)
           /\ Exit(c, r, [customers EXCEPT ![c].st = "done"])
           /\ last' = Step("svc", c, r, FALSE)
    /\ UNCHANGED << agg, params, ncustomers,
                    lost_customers, waiting_times, open_extra_cashier,
                    activation_count, opened_at,
                    routed_since_close, done >>

\* a Release is processed: its callback _trigger_put grants the next request
RelEvent ==
    /\ Dispatch("rel")
    /\ LET r == Head(evq).id
           tp == TriggerPut(users[r], queue[r])
       IN  /\ users' = [users EXCEPT ![r] = tp.users]
           /\ queue' = [queue EXCEPT ![r] = tp.queue]
           /\ customers' = MarkTriggered(customers, tp.granted)
           /\ evq' = ScheduleAll(Tail(evq), RequestEvents(now', tp.granted))
           /\ last' = Step("rel", 0, r, FALSE)
    /\ UNCHANGED << agg, params, ncustomers,
                    lost_customers, profit, waiting_times, open_extra_cashier,
                    activation_count, opened_at,
                    routed_since_close, done >>

\* open_extra_cashier_process up to its yield
InitOpen ==
    /\ Dispatch("init_open")
    /\ IF ~open_extra_cashier
          THEN /\ open_extra_cashier' = TRUE
               /\ activation_count' = activation_count + 1
               /\ opened_at' = now'
               /\ evq' = Schedule(Tail(evq),
                            Event(now' + OverflowDuration, NORMAL, "close", 0))
          ELSE /\ evq' = Tail(evq)
               /\ UNCHANGED << open_extra_cashier, activation_count, opened_at >>
    /\ last' = Step("init_open", 0, None, FALSE)
    /\ UNCHANGED << agg, params, users, queue,
                    customers, ncustomers, lost_customers, profit,
                    waiting_times, routed_since_close, done >>

\* mutant: the cost of a window charged as C
ChargeHalf(p) == p - C

\* mutant: the cost of a window charged when it opens and when it closes
ChargeTwice(p) == p - 2 * C - 2 * C

\* self.profit -= 2 * self.C
Charge(p) == p - 2 * C

\* mutant: closing the window also empties the overflow queue
CloseEvict ==
    /\ Dispatch("close")
    /\ open_extra_cashier' = FALSE
    /\ profit' = Charge(profit)
    /\ routed_since_close' = 0
    /\ evq' = Tail(evq)
    /\ last' = Step("close", 0, None, FALSE)
    /\ queue' = [queue EXCEPT ![ExtraCashier] = << >>]
    /\ UNCHANGED << agg, params, users,
                    customers, ncustomers, lost_customers, waiting_times,
                    activation_count, opened_at, done >>

\* open_extra_cashier_process resumed by its timeout
Close ==
    /\ Dispatch("close")
    /\ open_extra_cashier' = FALSE
    /\ profit' = Charge(profit)
    /\ routed_since_close' = 0
    /\ evq' = Tail(evq)
    /\ last' = Step("close", 0, None, FALSE)
    /\ UNCHANGED << agg, params, users, queue,
                    customers, ncustomers, lost_customers, waiting_times,
                    activation_count, opened_at, done >>

\* simulate's three appends after a replication
Record(p, w, l) ==
    /\ profits' = Append(profits, p)
    /\ avg_waiting_times' = Append(avg_waiting_times, mean(Floats(w)))
    /\ lost_customers_runs' = Append(lost_customers_runs, l)
    /\ UNCHANGED << num_runs, result >>

\* env.run(until=...): no event is left before the horizon; simulate
\* then records the replication (the three appends)
Finish ==
    /\ ~done
    /\ evq = << >> \/ Head(evq).t >= Horizon
    /\ now' = Horizon
    /\ done' = TRUE
    /\ last' = Step("finish", 0, None, FALSE)
    /\ Record(profit, waiting_times, lost_customers)
    /\ UNCHANGED << evq, params, users, queue,
                    customers, ncustomers, lost_customers, profit,
                    waiting_times, open_extra_cashier, activation_count,
                    opened_at, routed_since_close >>

Next ==
    \/ InitArrival
    \/ Arrive
    \/ InitCust
    \/ ReqEvent
    \/ PatEvent
    \/ CondEvent
    \/ SvcEvent
    \/ RelEvent
    \/ InitOpen
    \/ Close
    \/ Finish

Spec == Init /\ [][Next]_vars

\* ------------------------------------------------------------- simulate
\* Largest num_runs of the runs of simulate that are explored.
MaxRuns == 2

\* the statistics simulate returns
Statistics ==
    [returned |-> TRUE,
     mean_profit |-> mean(Floats(profits)),
     ci_profit_sq |-> ci_sq(Floats(profits), num_runs),
     mean_waiting_time |-> mean(avg_waiting_times),
     ci_waiting_time_sq |-> ci_sq(avg_waiting_times, num_runs)]

\* the end of simulate: every replication is recorded, the statistics are
\* computed and returned
Aggregate ==
    /\ done
    /\ ~result.returned
    /\ Len(profits) = num_runs
    /\ result' = Statistics
    /\ last' = Step("return", 0, None, FALSE)
    /\ UNCHANGED << now, evq, params, users, queue,
                    customers, ncustomers, lost_customers, profit,
                    waiting_times, open_extra_cashier, activation_count,
                    opened_at, routed_since_close, done,
                    num_runs, profits, lost_customers_runs, avg_waiting_times >>

\* the next turn of simulate's loop: a fresh Environment and Supermarket
\* with the same parameters, and its arrival process
NextRun ==
    /\ done
    /\ ~result.returned
    /\ Len(profits) < num_runs
    /\ now' = 0
    /\ users' = [r \in Resources |-> << >>]
    /\ queue' = [r \in Resources |-> << >>]
    /\ customers' = [c \in Customers |-> NoCustomer]
    /\ ncustomers' = 0
    /\ lost_customers' = 0
    /\ profit' = 0
    /\ waiting_times' = << >>
    /\ open_extra_cashier' = FALSE
    /\ activation_count' = 0
    /\ opened_at' = 0
    /\ routed_since_close' = 0
    /\ evq' = << Event(0, URGENT, "init_arrival", 0) >>
    /\ last' = [kind |-> "init", id |-> 0, cashier |-> None, trig |-> FALSE, open |-> FALSE]
    /\ done' = FALSE
    /\ UNCHANGED << agg, params >>

\* a call of the sweep: params = {'extra_cashier_policy': 0,
\* 'lambda_rate': 1, 'C': 3}, num_cashiers left to its default of 4
AggConfig ==
    [num_cashiers |-> 4, extra_cashier_policy |-> 0, lambda_rate |-> 1, C |-> 3]

InitAgg ==
    /\ Construct(AggConfig)
    /\ \E n \in 2..MaxRuns : Enter(n)

NextAgg ==
    \/ InitArrival
    \/ Arrive
    \/ InitCust
    \/ ReqEvent
    \/ PatEvent
    \/ CondEvent
    \/ SvcEvent
    \/ RelEvent
    \/ InitOpen
    \/ Close
    \/ Finish
    \/ NextRun
    \/ Aggregate

\* simulate: num_runs replications, each run by the event loop, and the
\* statistics over them
SpecAgg == InitAgg /\ [][NextAgg]_vars

\* -------------------------------------------- configurations never checked
\* Supermarket.__init__ stores what it is given: these reach the run too
BadConfigs ==
    { [num_cashiers |-> 1, extra_cashier_policy |-> 0, lambda_rate |-> 2, C |-> -1],
      [num_cashiers |-> 0, extra_cashier_policy |-> 0, lambda_rate |-> 2, C |-> 3],
      [num_cashiers |-> 1, extra_cashier_policy |-> 0, lambda_rate |-> 0, C |-> 3] }

\* an exception leaves a process: the process fails, and its event is
\* scheduled with the exception as its value
Raise(kind) ==
    /\ Dispatch(kind)
    /\ evq' = Schedule(Tail(evq), Event(now', NORMAL, "fail", Head(evq).id))
    /\ last' = Step("raise", Head(evq).id, None, FALSE)
    /\ UNCHANGED << agg, params, users, queue,
                    customers, ncustomers, lost_customers, profit,
                    waiting_times, open_extra_cashier, activation_count,
                    opened_at, routed_since_close, done >>

\* Environment.step on the event of a failed process nobody waits for: the
\* exception leaves env.run and simulate, nothing is recorded or returned
Fail ==
    /\ Dispatch("fail")
    /\ evq' = Tail(evq)
    /\ done' = TRUE
    /\ last' = Step("fail", Head(evq).id, None, FALSE)
    /\ UNCHANGED << agg, params, users, queue,
                    customers, ncustomers, lost_customers, profit,
                    waiting_times, open_extra_cashier, activation_count,
                    opened_at, routed_since_close >>

\* customer_arrival's first step: 1.0 / self.lambda_rate divides by zero,
\* and np.random.exponential refuses a negative scale
InitArrivalRaise ==
    /\ lambda_rate <= 0
    /\ Raise("init_arrival")

\* the first customer's choose_cashier: queues[0] of an empty list
InitCustRaise ==
    /\ num_cashiers < 1
    /\ Raise("init_cust")

InitConfig ==
    /\ \E cfg \in BadConfigs : Construct(cfg)
    /\ Enter(1)

NextConfig ==
    \/ lambda_rate > 0 /\ InitArrival
    \/ InitArrivalRaise
    \/ Arrive
    \/ num_cashiers >= 1 /\ InitCust
    \/ InitCustRaise
    \/ Fail
    \/ ReqEvent
    \/ PatEvent
    \/ CondEvent
    \/ SvcEvent
    \/ RelEvent
    \/ InitOpen
    \/ Close
    \/ Finish
    \/ Aggregate

\* simulate called with one replication of an unchecked configuration
SpecConfig == InitConfig /\ [][NextConfig]_vars

\* ------------------------------------------------------------------ C11
InvalidConfig == num_cashiers < 1 \/ lambda_rate <= 0 \/ C < 0

\* C11: a configuration with num_cashiers < 1, lambda_rate <= 0 or negative
\* C is rejected before any replication starts: no event is dispatched, no
\* customer is created, nothing is recorded and no result is returned.
C11_Rejected ==
    InvalidConfig =>
        /\ last.kind = "init"
        /\ now = 0
        /\ ncustomers = 0
        /\ profits = << >>
        /\ ~result.returned

\* what the code does with each of them
C11_NegativeCostReturns ==
    C < 0 /\ result.returned /\ activation_count > 0 /\ profit > Gain * Len(waiting_times) - Gain
C11_NoCashierFails ==
    num_cashiers < 1 /\ last.kind = "fail" /\ ncustomers = 1 /\ ~result.returned
C11_ZeroRateFails ==
    lambda_rate <= 0 /\ last.kind = "fail" /\ ncustomers = 0 /\ ~result.returned

\* ------------------------------------------------------------ properties
WithStatus(st) == { c \in Customers : customers[c].st = st }
InService == WithStatus("service")
Completed == WithStatus("done")
Balked == WithStatus("balked")
Reneged == WithStatus("reneged")
OpenWindows == IF open_extra_cashier THEN 1 ELSE 0
InSeq(c, s) == \E i \in 1..Len(s) : s[i] = c
Queued(c) == \E r \in Resources : InSeq(c, queue[r])
Holding(c) == \E r \in Resources : InSeq(c, users[r])
Pending(kind, id) == \E i \in 1..Len(evq) : evq[i].kind = kind /\ evq[i].id = id
\* the next step of the event loop dispatches an event of this kind
Next_is(kind) ==
    ~done /\ evq # << >> /\ Head(evq).t < Horizon /\ Head(evq).kind = kind

\* C1 (as stated): at the horizon profit is 10 for every customer with an
\* entry in waiting_times minus 2*C for every overflow window opened.
C1_AtHorizon ==
    done => profit = 10 * Len(waiting_times) - 2 * C * activation_count

\* C1 (amended): in every state profit is 10 for every customer whose service
\* has completed (the customers with an entry in waiting_times that are no
\* longer in service) minus 2*C for every overflow window that has closed
\* (the windows opened, less the one still open).
C1_Profit ==
    /\ Len(waiting_times) = Cardinality(InService) + Cardinality(Completed)
    /\ profit = 10 * (Len(waiting_times) - Cardinality(InService))
                  - 2 * C * (activation_count - OpenWindows)

\* the horizon is reached with a customer in service, a window open, and
\* both a completed service and a closed window behind
C1_Witness ==
    /\ done
    /\ InService # {}
    /\ Completed # {}
    /\ open_extra_cashier
    /\ activation_count >= 2

\* C2: lost_customers is the number of balked customers plus the number of
\* reneged customers; it changes only in a step in which one customer balks
\* or reneges, and then by exactly 1.
C2_Lost ==
    /\ [](lost_customers = Cardinality(Balked) + Cardinality(Reneged))
    /\ [][ /\ lost_customers' # lost_customers =>
                /\ lost_customers' = lost_customers + 1
                /\ Cardinality(Balked' \cup Reneged')
                     = Cardinality(Balked \cup Reneged) + 1
           /\ Balked \subseteq Balked'
           /\ Reneged \subseteq Reneged' ]_vars

\* a run that lost customers both ways
C2_Witness ==
    /\ Cardinality(Balked) >= 1
    /\ Cardinality(Reneged) >= 2
    /\ lost_customers = Cardinality(Balked) + Cardinality(Reneged)

\* C3: a routing decision made with the window closed and every regular
\* queue at 5 or more is a balk: lost_customers grows by 1, waiting_times
\* and every queue and holder stay as they are, and the balked customer has
\* no request, timeout or condition anywhere, now or later.
C3_Balk ==
    /\ [][ (Next_is("init_cust") /\ ~open_extra_cashier /\ min_queue >= 5) =>
              /\ lost_customers' = lost_customers + 1
              /\ waiting_times' = waiting_times
              /\ queue' = queue
              /\ users' = users
              /\ customers'[Head(evq).id].st = "balked" ]_vars
    /\ [](\A c \in Balked :
              /\ ~Queued(c) /\ ~Holding(c)
              /\ customers[c].cashier = None
              /\ ~customers[c].triggered
              /\ \A k \in {"req", "pat", "cond", "svc"} : ~Pending(k, c))

\* a customer has just balked at a closed window, all regular queues full
C3_Witness ==
    /\ last.kind = "init_cust"
    /\ ~last.open
    /\ last.cashier = None
    /\ customers[last.id].st = "balked"
    /\ \A r \in Cashiers : QueueLen(r) >= 5
    /\ lost_customers >= 1

\* C4: a customer whose request is still not granted when its patience
\* timeout is dispatched (1.0 time units after it joined the queue) reneges
\* at that same simulated time: it is never served, the step that ends its
\* process counts it lost once, records no wait and leaves it in no queue and
\* holding no resource, and it is in none afterwards.
C4_Renege ==
    /\ [][ (Next_is("cond") /\ customers[Head(evq).id].timedout) =>
              /\ customers'[Head(evq).id].st = "reneged"
              /\ lost_customers' = lost_customers + 1
              /\ waiting_times' = waiting_times
              /\ now' = customers[Head(evq).id].arrival + 1 * TicksPerUnit ]_vars
    /\ [](\A c \in Customers :
            /\ customers[c].timedout =>
                  /\ customers[c].st \in {"waiting", "reneged"}
                  /\ ~Pending("svc", c)
                  /\ customers[c].st = "waiting" =>
                        /\ Pending("cond", c)
                        /\ now = customers[c].arrival + 1 * TicksPerUnit
            /\ customers[c].st = "reneged" =>
                  /\ customers[c].timedout
                  /\ ~Queued(c) /\ ~Holding(c)
                  /\ ~Pending("cond", c) /\ ~Pending("pat", c))

\* a customer has just reneged from a regular queue behind a customer still
\* in service
C4_Witness ==
    /\ last.kind = "reneged"
    /\ customers[last.id].timedout
    /\ last.cashier \in Cashiers
    /\ ~Queued(last.id) /\ ~Holding(last.id)
    /\ \E h \in InService : InSeq(h, users[last.cashier])
    /\ now = customers[last.id].arrival + 1 * TicksPerUnit

\* C5: overflow windows never overlap: the window is open exactly while one
\* activation process waits in its timeout, at most one activation process
\* is waiting to start and only while the window is closed, and a routing
\* decision made while the window is open starts no activation and leaves
\* the flag, the window count, the opening time and the pending close alone.
CountEvents(kind) == Cardinality({ i \in 1..Len(evq) : evq[i].kind = kind })
CloseTimes == { evq[i].t : i \in { j \in 1..Len(evq) : evq[j].kind = "close" } }

C5_NoOverlap ==
    /\ [](/\ CountEvents("close") = OpenWindows
          /\ CountEvents("init_open") <= 1
          /\ CountEvents("init_open") = 1 => ~open_extra_cashier
          /\ activation_count >= OpenWindows)
    /\ [][ (Next_is("init_cust") /\ open_extra_cashier) =>
              /\ open_extra_cashier'
              /\ activation_count' = activation_count
              /\ opened_at' = opened_at
              /\ CountEvents("init_open")' = 0
              /\ CloseTimes' = CloseTimes ]_vars

\* a routing decision has just been made inside the second window
C5_Witness ==
    /\ last.kind = "init_cust"
    /\ last.open
    /\ open_extra_cashier
    /\ activation_count >= 2
    /\ CountEvents("close") = 1

\* what has been subtracted from profit so far: the revenue of the completed
\* services less the profit
TotalCharged == Gain * Cardinality(Completed) - profit

\* C6 (as stated): at the end of a replication every overflow window that
\* was opened has produced one subtraction of 2*C from profit.
C6_AsStated ==
    done => TotalCharged = 2 * C * activation_count

\* C6 (amended): every overflow window that has closed has produced exactly
\* one subtraction of 2*C from profit, made in the step that closes it, and a
\* window still open has produced none; nothing else ever lowers profit, and
\* opening a window costs nothing then: one subtraction per closed window,
\* never two.
C6_OneCharge ==
    /\ [](TotalCharged = 2 * C * (activation_count - OpenWindows))
    /\ [][ /\ (open_extra_cashier /\ ~open_extra_cashier') =>
                  profit' = profit - 2 * C
           /\ profit' < profit =>
                 /\ open_extra_cashier /\ ~open_extra_cashier'
                 /\ activation_count' = activation_count
           /\ (~open_extra_cashier /\ open_extra_cashier') =>
                 /\ profit' = profit
                 /\ activation_count' = activation_count + 1 ]_vars

\* num_cashiers = 1, extra_cashier_policy = 0: the replication has ended
\* after back-to-back windows, every closed one charged once and the last one
\* still open, its close due after the horizon, and not charged, with
\* customers served
C6_Witness ==
    /\ done
    /\ num_cashiers = 1
    /\ extra_cashier_policy = 0
    /\ open_extra_cashier
    /\ opened_at + OverflowDuration > Horizon
    /\ activation_count >= 2
    /\ Cardinality(Completed) >= 2
    /\ TotalCharged = 2 * C * (activation_count - 1)

\* C7: an open window was opened at most 2.0 time units ago and its close is
\* due exactly 2.0 time units after its opening; the flag goes from true to
\* false only in a step at that time, and it is raised only by the step that
\* records the opening time.
C7_Duration ==
    /\ [](open_extra_cashier =>
            /\ opened_at <= now
            /\ now <= opened_at + 2 * TicksPerUnit
            /\ CloseTimes = { opened_at + 2 * TicksPerUnit })
    /\ [][ /\ (open_extra_cashier /\ ~open_extra_cashier') =>
                  now' = opened_at + 2 * TicksPerUnit
           /\ (~open_extra_cashier /\ open_extra_cashier') => opened_at' = now'
           /\ (open_extra_cashier /\ open_extra_cashier') => opened_at' = opened_at
         ]_vars

\* the second window of a run has just closed, 2.0 time units after it opened
C7_Witness ==
    /\ last.kind = "close"
    /\ ~open_extra_cashier
    /\ activation_count >= 2
    /\ now = opened_at + 2 * TicksPerUnit

\* C8: with extra_cashier_policy = 0 a routing decision that finds the window
\* closed is followed at once, at the same simulated time, by the start of
\* the activation process, which opens the window at that time; so the
\* window is closed only while no routing decision has been made since it
\* last closed (or since the start), or in the one state between the
\* decision and the opening.
C8_BackToBack ==
    /\ [](extra_cashier_policy = 0 /\ routed_since_close > 0 =>
            \/ open_extra_cashier
            \/ /\ last.kind = "init_cust"
               /\ Next_is("init_open")
               /\ Head(evq).t = now)
    /\ [][ /\ (extra_cashier_policy = 0 /\ Next_is("init_cust")
                 /\ ~open_extra_cashier) =>
                  /\ Head(evq').kind = "init_open"
                  /\ Head(evq').t = now'
           /\ (extra_cashier_policy = 0 /\ Next_is("init_open")) =>
                  /\ open_extra_cashier'
                  /\ now' = now
                  /\ opened_at' = now ]_vars

\* policy 0: the window has just been opened again by the first routing
\* decision after the previous window closed
C8_Witness ==
    /\ extra_cashier_policy = 0
    /\ last.kind = "init_open"
    /\ open_extra_cashier
    /\ activation_count >= 2
    /\ routed_since_close = 1
    /\ opened_at = now

\* C9: a routing decision made while the window is open sends the customer
\* to the overflow resource, whatever the queue lengths: the customer joins
\* the overflow resource (granted or queued), is not lost, no activation is
\* triggered and no regular cashier changes.
C9_Override ==
    [][ (Next_is("init_cust") /\ open_extra_cashier) =>
          LET c == Head(evq).id IN
          /\ customers'[c].cashier = ExtraCashier
          /\ customers'[c].st = "waiting"
          /\ users'[ExtraCashier] \o queue'[ExtraCashier]
               = users[ExtraCashier] \o queue[ExtraCashier] \o << c >>
          /\ lost_customers' = lost_customers
          /\ CountEvents("init_open")' = 0
          /\ activation_count' = activation_count
          /\ \A r \in Cashiers : queue'[r] = queue[r] /\ users'[r] = users[r]
      ]_vars

\* a customer has just been routed to the overflow resource although every
\* regular queue holds 5 requests or more
C9_Witness ==
    /\ last.kind = "init_cust"
    /\ last.open
    /\ last.cashier = ExtraCashier
    /\ customers[last.id].st = "waiting"
    /\ \A r \in Cashiers : QueueLen(r) >= 5

\* C10: a routing decision made with the window closed and some regular
\* queue shorter than 5 sends the customer to a regular cashier whose queue
\* is no longer than any other and, among those, the one of lowest index; the
\* decision changes no other resource and on the chosen one only adds the
\* customer's request; a queue holds only requests not yet granted.
C10_MinQueue ==
    /\ [][ (Next_is("init_cust") /\ ~open_extra_cashier
              /\ \E r \in Cashiers : Len(queue[r]) < 5) =>
             LET c == Head(evq).id
                 r == customers'[c].cashier
             IN  /\ r \in Cashiers
                 /\ \A j \in Cashiers :
                       /\ Len(queue[r]) <= Len(queue[j])
                       /\ Len(queue[j]) = Len(queue[r]) => r <= j
                 /\ users'[r] \o queue'[r] = users[r] \o queue[r] \o << c >>
                 /\ \A j \in Resources \ {r} :
                       queue'[j] = queue[j] /\ users'[j] = users[j] ]_vars
    /\ [](\A r \in Resources : \A i \in 1..Len(queue[r]) :
            /\ ~customers[queue[r][i]].triggered
            /\ customers[queue[r][i]].st = "waiting"
            /\ ~Holding(queue[r][i]))

\* two cashiers: the customer has just been sent to the second one, whose
\* queue was shorter than the first one's, and was granted it at once
C10_Witness ==
    /\ num_cashiers = 2
    /\ last.kind = "init_cust"
    /\ ~last.open
    /\ last.cashier = 2
    /\ QueueLen(1) > QueueLen(2)
    /\ users[1] # << >>
    /\ Holding(last.id)

\* ------------------------------------------------------------------ C12
\* the per-replication mean waits that are defined
Defined(xs) == SelectSeq(xs, LAMBDA x : ~IsNaN(x))

\* C12: the undefined mean wait of a replication that served nobody is
\* kept out of the wait-time aggregate: when some replication has a defined
\* mean wait, the returned mean wait and half-width are defined, and the
\* mean is the mean over the defined ones.
C12_UndefinedExcluded ==
    (result.returned /\ Defined(avg_waiting_times) # << >>) =>
        /\ ~IsNaN(result.mean_waiting_time)
        /\ ~IsNaN(result.ci_waiting_time_sq)
        /\ result.mean_waiting_time = mean(Defined(avg_waiting_times))

\* a replication ends having served nobody and records nan as its mean wait
C12_ZeroServed ==
    done /\ waiting_times = << >> /\ avg_waiting_times = << NaN >>

\* ------------------------------------------------------------------ C13
\* the sample variance: the squared deviations from the mean summed and
\* divided by the length minus one
sample_var(xs) ==
    LET m == mean(xs)
    IN  FDiv(FSum([i \in 1..Len(xs) |-> FMul(FSub(xs[i], m), FSub(xs[i], m))]),
             Len(xs) - 1)

\* the square of 1.96 * s / sqrt(n), s the sample standard deviation
sample_ci_sq(xs, n) == FDiv(FMul(Frac(196 * 196, 100 * 100), sample_var(xs)), n)

\* C13: for two replications or more, simulate returns the arithmetic mean
\* of the per-replication profits (and mean waits) and the half-width
\* 1.96 * s / sqrt(num_runs), s the sample standard deviation with divisor
\* num_runs - 1 (the half-widths are compared by their squares).
C13_SampleStd ==
    (result.returned /\ num_runs >= 2) =>
        /\ result.mean_profit = mean(Floats(profits))
        /\ result.ci_profit_sq = sample_ci_sq(Floats(profits), num_runs)
        /\ result.mean_waiting_time = mean(avg_waiting_times)
        /\ result.ci_waiting_time_sq = sample_ci_sq(avg_waiting_times, num_runs)

\* ------------------------------------------------------------------ C15
\* a resource without a holder whose queue is not empty has its Release
\* still to be processed at the current instant
GrantDue(r) ==
    (users[r] = << >> /\ queue[r] # << >>) =>
        \E i \in 1..Len(evq) : evq[i].kind = "rel" /\ evq[i].id = r /\ evq[i].t = now

\* what a step does to resource r
SlotStep(r) ==
    \* a new holder takes a free slot and is the oldest request: the head of
    \* the queue, or the customer requesting in this step when it is empty
    /\ (users'[r] # users[r] /\ users'[r] # << >>) =>
          /\ users[r] = << >>
          /\ IF queue[r] # << >>
                THEN users'[r] = << Head(queue[r]) >> /\ ~InSeq(Head(queue[r]), queue'[r])
                ELSE last'.kind = "init_cust" /\ users'[r] = << last'.id >>
    \* a request on a free resource is granted at once
    /\ (last'.kind = "init_cust" /\ last'.cashier = r
            /\ users[r] = << >> /\ queue[r] = << >>) =>
          users'[r] = << last'.id >> /\ queue'[r] = << >>
    \* the holder completes service: the slot is free, its Release is due
    \* at this instant
    /\ (last'.kind = "svc" /\ last'.cashier = r) =>
          /\ users[r] = << last'.id >>
          /\ users'[r] = << >>
          /\ \E i \in 1..Len(evq') :
                evq'[i].kind = "rel" /\ evq'[i].id = r /\ evq'[i].t = now'
    \* the Release is processed: the oldest pending request gets the slot,
    \* an empty queue leaves the resource free
    /\ (last'.kind = "rel" /\ last'.cashier = r /\ users[r] = << >>) =>
          IF queue[r] # << >>
             THEN users'[r] = << Head(queue[r]) >> /\ queue'[r] = Tail(queue[r])
             ELSE users'[r] = << >> /\ queue'[r] = << >>

\* C15: every cashier resource, regular or overflow, has at most one holder;
\* a request on a free resource is granted at once; when the holder
\* completes service the slot goes, at that same instant, to the oldest
\* request pending in the resource's queue, or stays free when it is empty.
C15_OneHolderFifo ==
    /\ [](\A r \in Resources : Len(users[r]) <= 1 /\ GrantDue(r))
    /\ [][\A r \in Resources : SlotStep(r)]_vars

\* a Release has handed the slot to the head of a queue in which another
\* customer still waits
C15_Witness ==
    /\ last.kind = "rel"
    /\ Len(users[last.cashier]) = 1
    /\ QueueLen(last.cashier) >= 1
    /\ customers[users[last.cashier][1]].arrival
           <= customers[queue[last.cashier][1]].arrival

\* ------------------------------------------------------------------ C16
\* the routing step of a customer that finds the window closed and the
\* shortest regular queue at the policy threshold or above
TriggerStep ==
    (last'.kind = "init_cust" /\ ~open_extra_cashier
        /\ min_queue >= extra_cashier_policy) =>
       /\ last'.trig
       \* routed by the regular rule, never to the overflow resource
       /\ last'.cashier = (IF min_queue < 5 THEN min_cashier ELSE None)
       /\ last'.cashier # ExtraCashier
       /\ IF min_queue < 5
             THEN /\ customers'[last'.id].st = "waiting"
                  /\ customers'[last'.id].cashier = min_cashier
                  /\ \/ InSeq(last'.id, queue'[min_cashier])
                     \/ InSeq(last'.id, users'[min_cashier])
                  /\ lost_customers' = lost_customers
             ELSE /\ customers'[last'.id].st = "balked"
                  /\ lost_customers' = lost_customers + 1
       /\ ~InSeq(last'.id, queue'[ExtraCashier])
       /\ ~InSeq(last'.id, users'[ExtraCashier])
       \* the activation is the next thing to run, at this instant
       /\ Head(evq').kind = "init_open" /\ Head(evq').t = now'

\* the activation runs right after the routing step that triggered it,
\* finds the window closed and opens it
OpenStep ==
    (last'.kind = "init_open") =>
       /\ last.kind = "init_cust" /\ last.trig
       /\ now' = now
       /\ ~open_extra_cashier /\ open_extra_cashier'
       /\ activation_count' = activation_count + 1

\* C16: a customer routed while the window is closed and the minimum
\* regular queue length is >= extra_cashier_policy triggers the activation
\* and is itself routed by the regular rule (minimum cashier below 5, else
\* balk), never to the overflow resource; the window opens at the same
\* instant before any other routing decision, so each activation has one
\* triggering customer and opens one window.
C16_FireAndForget ==
    /\ [][TriggerStep /\ OpenStep]_vars
    /\ [](Pending("init_open", 0) =>
            /\ Head(evq).kind = "init_open"
            /\ CountEvents("init_open") = 1
            /\ last.kind = "init_cust" /\ last.trig
            /\ ~open_extra_cashier)

\* a triggering customer has joined a regular queue behind others and the
\* activation is about to run
C16_Witness ==
    /\ last.kind = "init_cust" /\ last.trig
    /\ last.cashier \in Cashiers
    /\ extra_cashier_policy >= 1
    /\ InSeq(last.id, queue[last.cashier])
    /\ Head(evq).kind = "init_open"

\* ------------------------------------------------------------------ C17
\* C17: no regular cashier's queue ever holds more than 5 pending requests;
\* hence with extra_cashier_policy > 5 the overflow window is never opened
\* (no activation is even started) and profit never decreases.
C17_QueueBound ==
    /\ [](\A r \in Cashiers : QueueLen(r) <= 5)
    /\ [](extra_cashier_policy > 5 =>
            /\ ~open_extra_cashier
            /\ activation_count = 0
            /\ ~Pending("init_open", 0)
            /\ ~Pending("close", 0))
    /\ [][extra_cashier_policy > 5 => profit' >= profit]_vars

\* with a policy above 5, a customer has balked at a regular queue of 5
\* without triggering anything
C17_Witness ==
    /\ extra_cashier_policy > 5
    /\ \E r \in Cashiers : QueueLen(r) = 5
    /\ \E c \in Balked : TRUE
    /\ last.kind = "init_cust" /\ last.cashier = None /\ ~last.trig

\* ------------------------------------------------------------------ C18
\* C18: patience bounds every wait: a customer whose request is pending in
\* a queue arrived at most 1.0 time units ago, and every value recorded in
\* waiting_times is between 0 and 1.0.
C18_PatienceBound ==
    /\ \A c \in Customers :
          Queued(c) => now - customers[c].arrival <= 1 * TicksPerUnit
    /\ \A i \in 1..Len(waiting_times) :
          waiting_times[i] >= 0 /\ waiting_times[i] <= 1 * TicksPerUnit

\* a customer was served after waiting its whole patience, and another
\* is pending in a queue at the end of its patience
C18_Witness ==
    /\ \E i \in 1..Len(waiting_times) : waiting_times[i] = 1 * TicksPerUnit
    /\ \E c \in Customers :
          Queued(c) /\ now - customers[c].arrival = 1 * TicksPerUnit

\* ------------------------------------------------------------------ C19
\* customer c has a request on the overflow resource, pending or granted
OnOverflow(c) == InSeq(c, queue[ExtraCashier]) \/ InSeq(c, users[ExtraCashier])

\* the step that closes the window
CloseStep ==
    (last'.kind = "close") =>
       /\ open_extra_cashier /\ ~open_extra_cashier'
       /\ profit' = profit - 2 * C
       /\ users' = users /\ queue' = queue
       /\ customers' = customers /\ ncustomers' = ncustomers
       /\ lost_customers' = lost_customers
       /\ waiting_times' = waiting_times

\* a request that is new on the overflow resource was made with the flag set
EnqueueStep ==
    \A c \in Customers :
       (~OnOverflow(c) /\ OnOverflow(c)') =>
          /\ open_extra_cashier /\ open_extra_cashier'
          /\ last'.kind = "init_cust" /\ last'.id = c

\* C19: closing the overflow window changes only open_extra_cashier and
\* profit (minus 2*C): the overflow resource's holder and queue are as
\* before, so customers admitted during the window stay and are granted,
\* served or renege afterwards; no request is enqueued on the overflow
\* resource while open_extra_cashier is false.
C19_CloseFrame ==
    [][CloseStep /\ EnqueueStep]_vars

\* a customer admitted during the window holds the overflow resource when
\* the window closes, and completes its service and earns its revenue
\* after the close, the flag being false
C19_Witness ==
    /\ last.kind = "svc" /\ last.cashier = ExtraCashier
    /\ ~open_extra_cashier
    /\ now > opened_at + OverflowDuration
    /\ customers[last.id].arrival >= opened_at
    /\ customers[last.id].arrival < opened_at + OverflowDuration

\* ------------------------------------------------------------------ C20
\* customers with a request pending in some queue
Waiting == { c \in Customers : Queued(c) }

\* customers between two of the categories: created with their process not
\* yet started, or granted a slot with their process not yet resumed
InTransit ==
    WithStatus("created") \cup { c \in WithStatus("waiting") : Holding(c) }

\* no event is left due at the current instant
Quiescent == done \/ evq = << >> \/ Head(evq).t > now

\* C20 (as stated): in every reachable state the customers created are
\* len(waiting_times) + lost_customers + the customers pending in a queue.
C20_AsStated ==
    ncustomers = Len(waiting_times) + lost_customers + Cardinality(Waiting)

\* C20 (amended): the customers created are those in waiting_times, those
\* lost, those pending in a queue and those in transit at the current
\* instant; once no event is due at the current instant (and at the
\* horizon) nobody is in transit and the stated equation holds; the served
\* and the lost are disjoint sets of customers, each counted once.
C20_Conservation ==
    /\ ncustomers = Len(waiting_times) + lost_customers
                      + Cardinality(Waiting) + Cardinality(InTransit)
    /\ Quiescent => InTransit = {} /\ C20_AsStated
    /\ Len(waiting_times) = Cardinality(InService \cup Completed)
    /\ lost_customers = Cardinality(Balked \cup Reneged)
    /\ Waiting \subseteq WithStatus("waiting")
    /\ Waiting \cap InTransit = {}

\* between two instants, with customers in service, past service, lost by
\* reneging and pending in a queue
C20_Witness ==
    /\ ~done /\ Quiescent
    /\ Len(waiting_times) >= 1
    /\ Reneged # {}
    /\ Waiting # {}
    /\ InService # {} /\ Completed # {}

====
